---- MODULE Spec2Model ----
(***************************************************************************)
(* The tool-call dispatcher of the iTerm2 MCP server (src/src/index.ts):   *)
(* the CallToolRequestSchema handler and runPythonClient, the promise      *)
(* wrapper around the spawned Python collaborator.                         *)
(*                                                                         *)
(* JavaScript values are modelled as strings: Undefined stands for a       *)
(* missing property, "true"/"false" for the booleans of the arguments.     *)
(* Texts (messages, response texts, the child's output) are sequences of   *)
(* string fragments; concatenation is \o.                                  *)
(***************************************************************************)
EXTENDS Integers, Sequences, FiniteSets, TLC

\* Number of tool invocations a run issues (they may overlap).
MaxCalls == 2
\* Number of output chunks (stdout and stderr data events) the children emit in a run.
MaxChunks == 2

Calls == 1..MaxCalls

\* Bounds of a topology snapshot.
MaxWindows == 2
MaxTabs == 2
MaxPanes == 3
MaxSnapshotPanes == 6

Undefined == "undefined"

----------------------------------------------------------------------------
(* The tool surface *)

ToolNames ==
  { "iterm2_side_pane", "iterm2_status", "iterm2_list_panes", "iterm2_read_pane",
    "iterm2_current_pane", "iterm2_enable_api", "iterm2_send_text",
    "iterm2_send_control_character", "iterm2_split_pane" }

\* The enum of the control property in the declared input schema.
ControlEnum == {"c", "d", "z", "l"}

\* Names a client may send: the declared tools and one that is not declared.
RequestNames == ToolNames \cup {"iterm2_close_pane"}

\* request.params.arguments is optional: present = FALSE is a request without it.
NoArguments ==
  [present |-> FALSE, session_id |-> Undefined, text |-> Undefined,
   newline |-> Undefined, control |-> Undefined, vertical |-> Undefined]

SessionIds == {Undefined, "", "t1p1"}
Texts      == {Undefined, "", "ls"}
Flags      == {Undefined, "true", "false"}
Controls   == {Undefined, ""} \cup ControlEnum \cup {"x"}

\* The arguments a client may send with each tool name (properties the handler
\* of that tool never reads are left out).
ArgumentsOf(name) ==
  {NoArguments} \cup
  CASE name = "iterm2_read_pane" ->
         {[NoArguments EXCEPT !.present = TRUE, !.session_id = s] : s \in SessionIds}
    [] name = "iterm2_send_text" ->
         {[NoArguments EXCEPT !.present = TRUE, !.session_id = s, !.text = t, !.newline = n] :
            s \in SessionIds, t \in Texts, n \in Flags}
    [] name = "iterm2_send_control_character" ->
         {[NoArguments EXCEPT !.present = TRUE, !.session_id = s, !.control = c] :
            s \in SessionIds, c \in Controls}
    [] name = "iterm2_split_pane" ->
         {[NoArguments EXCEPT !.present = TRUE, !.session_id = s, !.vertical = v] :
            s \in SessionIds, v \in Flags}
    [] OTHER -> {[NoArguments EXCEPT !.present = TRUE]}

\* !x for a string-or-undefined x.
Falsy(x) == x \in {Undefined, ""}

----------------------------------------------------------------------------
(* Exceptions and handler outcomes *)

NoException == [type |-> "none", code |-> "", message |-> <<>>]
McpError(code, message) == [type |-> "McpError", code |-> code, message |-> message]
Error(message) == [type |-> "Error", code |-> "", message |-> message]
TypeError(message) == [type |-> "TypeError", code |-> "", message |-> message]

NoOutcome == [kind |-> "none", code |-> "", isError |-> FALSE, text |-> <<>>]
\* A fault thrown to the transport layer.
Fault(code, message) ==
  [kind |-> "fault", code |-> code, isError |-> FALSE, text |-> message]
\* A returned {content: [{type: "text", text}], isError?}; isError = FALSE is
\* a response without the isError property.
Response(text, isError) ==
  [kind |-> "response", code |-> "", isError |-> isError, text |-> text]

----------------------------------------------------------------------------
(* The handler up to its await: argument validation and the collaborator request *)

\* What the code before `await runPythonClient(...)` yields: an exception
\* thrown inside the try block, or the argument vector handed to the collaborator.
Throws(e) == [exception |-> e, pythonArgs |-> <<>>]
Invokes(pythonArgs) == [exception |-> NoException, pythonArgs |-> pythonArgs]

SessionIdRequired == McpError("InvalidParams", <<"session_id is required">>)

\* `const { session_id, ... } = args` with args undefined.
CannotDestructure ==
  TypeError(<<"Cannot destructure property 'session_id' of 'args' as it is undefined.">>)

ReadPaneCase(args) ==
  IF Falsy(args.session_id)
    THEN Throws(SessionIdRequired)
    ELSE Invokes(<<"read", args.session_id>>)

\* SendTextArgs with the test written `!newline` instead of `newline === false`.
SendTextArgsNegated(sessionId, text, newline) ==
  <<"send-text", sessionId, text>> \o
  (IF newline \in {Undefined, "false"} THEN <<"--no-newline">> ELSE <<>>)

\* pythonArgs of send_text: the flag is pushed under `newline === false`.
SendTextArgs(sessionId, text, newline) ==
  <<"send-text", sessionId, text>> \o
  (IF newline = "false" THEN <<"--no-newline">> ELSE <<>>)

SendTextCase(args) ==
  IF ~args.present THEN Throws(CannotDestructure)
  ELSE IF Falsy(args.session_id) THEN Throws(SessionIdRequired)
  ELSE IF Falsy(args.text)
    THEN Throws(McpError("InvalidParams", <<"text is required">>))
  ELSE Invokes(SendTextArgs(args.session_id, args.text, args.newline))

SendControlCharacterCase(args) ==
  IF ~args.present THEN Throws(CannotDestructure)
  ELSE IF Falsy(args.session_id) THEN Throws(SessionIdRequired)
  ELSE IF Falsy(args.control)
    THEN Throws(McpError("InvalidParams", <<"control is required">>))
  ELSE Invokes(<<"send-control", args.session_id, args.control>>)

\* SplitPaneArgs with the test written `vertical !== false`.
SplitPaneArgsUnlessFalse(sessionId, vertical) ==
  <<"split", sessionId>> \o (IF vertical # "false" THEN <<"--vertical">> ELSE <<>>)

\* pythonArgs of split_pane: the flag is pushed under `vertical === true`.
SplitPaneArgs(sessionId, vertical) ==
  <<"split", sessionId>> \o (IF vertical = "true" THEN <<"--vertical">> ELSE <<>>)

SplitPaneCase(args) ==
  IF ~args.present THEN Throws(CannotDestructure)
  ELSE IF Falsy(args.session_id) THEN Throws(SessionIdRequired)
  ELSE Invokes(SplitPaneArgs(args.session_id, args.vertical))

\* The switch on the tool name.
BeforeAwait(name, args) ==
  CASE name = "iterm2_side_pane"    -> Invokes(<<"side-pane">>)
    [] name = "iterm2_status"       -> Invokes(<<"status">>)
    [] name = "iterm2_list_panes"   -> Invokes(<<"list">>)
    [] name = "iterm2_read_pane"    -> ReadPaneCase(args)
    [] name = "iterm2_current_pane" -> Invokes(<<"current">>)
    [] name = "iterm2_enable_api"   -> Invokes(<<"enable">>)
    [] name = "iterm2_send_text"    -> SendTextCase(args)
    [] name = "iterm2_send_control_character" -> SendControlCharacterCase(args)
    [] name = "iterm2_split_pane"   -> SplitPaneCase(args)
    [] OTHER -> Throws(McpError("MethodNotFound", <<"Unknown tool: ", name>>))

----------------------------------------------------------------------------
(* The catch block of the handler *)

\* Catch without its `instanceof McpError` rethrow.
CatchReturnsAll(e) ==
  Response(<<"Error: ">> \o e.message, TRUE)

\* Catch that rethrows whatever it caught.
CatchRethrowsAll(e) ==
  Fault(e.code, e.message)

\* An McpError is rethrown; anything else becomes a response with isError: true.
Catch(e) ==
  IF e.type = "McpError"
    THEN Fault(e.code, e.message)
    ELSE Response(<<"Error: ">> \o e.message, TRUE)

----------------------------------------------------------------------------
(* runPythonClient: the child process and the promise around it *)

\* Chunks the collaborator may write to stdout. A JSON text may arrive split
\* over several data events; the handler concatenates them.
Brace       == "{"
FailureTail == "\"error\":true,\"message\":\"Pane not found\"}"
PayloadTail == "\"shorthand\":\"t1p1\",\"message\":\"ok\"}"
NullText    == "null"
StdoutChunks == {Brace, FailureTail, PayloadTail, NullText}
StderrChunks == {"Traceback"}
ExitCodes == {0, 1}
SpawnError == <<"spawn python3 ENOENT">>

\* Parsed JSON values: null, or an object with the properties the handler reads
\* (a property the text does not carry is Undefined).
NoValue ==
  [isNull |-> FALSE, error |-> Undefined, message |-> Undefined,
   iterm2_module_installed |-> Undefined, api_enabled |-> Undefined,
   in_iterm_session |-> Undefined, ready |-> Undefined]
NullValue     == [NoValue EXCEPT !.isNull = TRUE]
FailureObject == [NoValue EXCEPT !.error = "true", !.message = "Pane not found"]
PayloadObject == [NoValue EXCEPT !.message = "ok"]

\* The members of the object the status verb prints, as JSON text.
BoolText(b) == IF b = "true" THEN "true" ELSE "false"
ModuleMember(b)  == <<"\"iterm2_module_installed\":", BoolText(b), ",">>
ApiMember(b)     == <<"\"api_enabled\":", BoolText(b), ",">>
SessionMember(b) == <<"\"in_iterm_session\":", BoolText(b), ",">>
ReadyMember(b)   == <<"\"ready\":", BoolText(b), "}">>

JSBooleans == {"true", "false"}

\* The value of a status text: an object with its four boolean properties.
StatusObject(m, a, s, r) ==
  [NoValue EXCEPT !.iterm2_module_installed = m, !.api_enabled = a,
                  !.in_iterm_session = s, !.ready = r]

StatusTexts ==
  { <<Brace>> \o ModuleMember(m) \o ApiMember(a) \o SessionMember(s) \o ReadyMember(r) :
      m \in JSBooleans, a \in JSBooleans, s \in JSBooleans, r \in JSBooleans }

\* JSON.parse on a status text: each member's literal read back.
ParseStatusText(stdout) ==
  StatusObject(stdout[3], stdout[6], stdout[9], stdout[12])

\* JSON.parse on the concatenated stdout.
JSONParse(stdout) ==
  CASE stdout = <<NullText>>           -> [ok |-> TRUE, value |-> NullValue]
    [] stdout = <<Brace, FailureTail>> -> [ok |-> TRUE, value |-> FailureObject]
    [] stdout = <<Brace, PayloadTail>> -> [ok |-> TRUE, value |-> PayloadObject]
    [] stdout \in StatusTexts          -> [ok |-> TRUE, value |-> ParseStatusText(stdout)]
    [] OTHER                           -> [ok |-> FALSE, value |-> NoValue]

Pending     == [state |-> "pending",  value |-> NoValue, reason |-> <<>>]
Resolved(v) == [state |-> "resolved", value |-> v,       reason |-> <<>>]
Rejected(m) == [state |-> "rejected", value |-> NoValue, reason |-> m]

CodeText(code) == IF code = 0 THEN "0" ELSE "1"

\* OnClose that resolves with a default payload when stdout is empty or not JSON.
OnCloseSwallowing(stdout, stderr, code) ==
  IF stdout # <<>> /\ JSONParse(stdout).ok
    THEN Resolved(JSONParse(stdout).value)
    ELSE Resolved(PayloadObject)

\* OnClose that looks at stderr and the exit code before stdout.
OnCloseStderrFirst(stdout, stderr, code) ==
  IF stderr # <<>> THEN Rejected(stderr)
  ELSE IF code # 0 THEN Rejected(<<"Python process exited with code ", CodeText(code)>>)
  ELSE IF stdout # <<>>
    THEN IF JSONParse(stdout).ok
           THEN Resolved(JSONParse(stdout).value)
           ELSE Rejected(<<"Failed to parse Python output: ">> \o stdout)
  ELSE Rejected(<<"No output from Python process">>)

\* The 'close' listener: what it settles the promise with.
OnClose(stdout, stderr, code) ==
  IF stdout # <<>>
    THEN IF JSONParse(stdout).ok
           THEN Resolved(JSONParse(stdout).value)
           ELSE Rejected(<<"Failed to parse Python output: ">> \o stdout)
  ELSE IF stderr # <<>> THEN Rejected(stderr)
  ELSE IF code # 0 THEN Rejected(<<"Python process exited with code ", CodeText(code)>>)
  ELSE Rejected(<<"No output from Python process">>)

\* The 'error' listener.
OnError(err) == Rejected(err)

----------------------------------------------------------------------------
(* The handler after its await *)

\* `x ? a : b` on a boolean-or-undefined property.
Truthy(x) == x = "true"

YesNo(x) == IF Truthy(x) THEN "Yes" ELSE "No"

\* FormatStatus with the "Ready to use" line taken from api_enabled.
FormatStatusReadyFromApi(result) ==
  << "iTerm2 API Status:",
     "- Python iterm2 module: ",
     IF Truthy(result.iterm2_module_installed) THEN "Installed" ELSE "NOT INSTALLED",
     "- API enabled in preferences: ", YesNo(result.api_enabled),
     "- Running in iTerm2: ", YesNo(result.in_iterm_session),
     "- Ready to use: ", YesNo(result.api_enabled) >>

\* The text of the status case.
FormatStatus(result) ==
  << "iTerm2 API Status:",
     "- Python iterm2 module: ",
     IF Truthy(result.iterm2_module_installed) THEN "Installed" ELSE "NOT INSTALLED",
     "- API enabled in preferences: ", YesNo(result.api_enabled),
     "- Running in iTerm2: ", YesNo(result.in_iterm_session),
     "- Ready to use: ", YesNo(result.ready) >>
  \o (IF ~Truthy(result.iterm2_module_installed)
        THEN <<"To install the iterm2 module: pip install iterm2">> ELSE <<>>)
  \o (IF ~Truthy(result.api_enabled)
        THEN <<"To enable the API: Use iterm2_enable_api tool, then restart iTerm2">>
        ELSE <<>>)

\* The text each case renders from a payload.
FormatResult(name, result) ==
  CASE name = "iterm2_side_pane"    -> <<"Side Pane:", "t1p1">>
    [] name = "iterm2_status"       -> FormatStatus(result)
    [] name = "iterm2_list_panes"   -> <<"iTerm2 Panes:">>
    [] name = "iterm2_read_pane"    -> <<"Pane Contents (", "t1p1", "):">>
    [] name = "iterm2_current_pane" -> <<"Current Pane:", "t1p1">>
    [] name = "iterm2_enable_api"   -> <<result.message>>
    [] name = "iterm2_send_text"    -> <<"Text sent to pane ", "t1p1", ":">>
    [] name = "iterm2_send_control_character" -> <<"Sent ", " to pane ", "t1p1">>
    [] OTHER                        -> <<"Pane split successfully!">>

\* The `if (result.error)` branch of every case.
ErrorBranch(result) ==
  Response(<<"Error: ", result.message>>, FALSE)

\* From the settled promise to the handler's outcome.
AfterAwait(name, settled) ==
  IF settled.state = "rejected" THEN Catch(Error(settled.reason))
  ELSE IF settled.value.isNull
    THEN Catch(TypeError(<<"Cannot read properties of null (reading 'error')">>))
  ELSE IF ~Falsy(settled.value.error) THEN ErrorBranch(settled.value)
  ELSE Response(FormatResult(name, settled.value), FALSE)

\* Retries for a handler that calls the collaborator again after a rejection.
RetriesOnRejection(settled) == settled.state = "rejected"

\* Whether the handler calls runPythonClient again after the await: no path does.
Retries(settled) == FALSE

----------------------------------------------------------------------------
(* The address resolver of the collaborator *)

\* Decimal digits; the positions of the model are single digits.
Digits == <<"0", "1", "2", "3", "4", "5", "6", "7", "8", "9">>
DigitChar(n) == Digits[n + 1]
DigitValue(c) ==
  IF \E n \in 0..9 : Digits[n + 1] = c
    THEN CHOOSE n \in 0..9 : Digits[n + 1] = c
    ELSE -1
IsPositiveInteger(c) == DigitValue(c) >= 1

\* The string of a shorthand address; window 0 stands for "no window given".
Shorthand(window, tab, pane) ==
  (IF window = 0 THEN <<>> ELSE <<"w", DigitChar(window)>>)
    \o <<"t", DigitChar(tab), "p", DigitChar(pane)>>

Malformed == [ok |-> FALSE, window |-> 0, tab |-> 0, pane |-> 0]
ShorthandAddress(window, tab, pane) ==
  [ok |-> TRUE, window |-> window, tab |-> tab, pane |-> pane]

\* "t<tab>p<pane>" or "w<window>t<tab>p<pane>", all numbers positive; the
\* window is 1 when omitted.
ParseAddress(str) ==
  IF /\ Len(str) = 4
     /\ str[1] = "t" /\ IsPositiveInteger(str[2])
     /\ str[3] = "p" /\ IsPositiveInteger(str[4])
    THEN ShorthandAddress(1, DigitValue(str[2]), DigitValue(str[4]))
  ELSE IF /\ Len(str) = 6
          /\ str[1] = "w" /\ IsPositiveInteger(str[2])
          /\ str[3] = "t" /\ IsPositiveInteger(str[4])
          /\ str[5] = "p" /\ IsPositiveInteger(str[6])
    THEN ShorthandAddress(DigitValue(str[2]), DigitValue(str[4]), DigitValue(str[6]))
  ELSE Malformed

\* A snapshot is a sequence of windows, a window a sequence of tabs, a tab a
\* sequence of panes; a pane has a session id and the "is current" flag.
NoPane == [id |-> 0, current |-> FALSE]
NoResolution ==
  [state |-> "none", pane |-> NoPane, position |-> "", error |-> "", level |-> ""]
Found(pane, position) ==
  [NoResolution EXCEPT !.state = "found", !.pane = pane, !.position = position]
ResolutionError(error, level) ==
  [NoResolution EXCEPT !.state = "failed", !.error = error, !.level = level]

\* Resolve reading the numbers as 0-based internal indices.
ResolveZeroBased(topology, str) ==
  LET a == ParseAddress(str) IN
    IF ~a.ok THEN ResolutionError("Malformed", "")
    ELSE IF a.window + 1 > Len(topology) THEN ResolutionError("NotFound", "window")
    ELSE IF a.tab + 1 > Len(topology[a.window + 1])
      THEN ResolutionError("NotFound", "tab")
    ELSE IF a.pane + 1 > Len(topology[a.window + 1][a.tab + 1])
      THEN ResolutionError("NotFound", "pane")
    ELSE Found(topology[a.window + 1][a.tab + 1][a.pane + 1], "")

\* resolve(topology, addressString): walks the snapshot, window, then tab, then
\* pane, each at its 1-based position.
Resolve(topology, str) ==
  LET a == ParseAddress(str) IN
    IF ~a.ok THEN ResolutionError("Malformed", "")
    ELSE IF a.window > Len(topology) THEN ResolutionError("NotFound", "window")
    ELSE IF a.tab > Len(topology[a.window]) THEN ResolutionError("NotFound", "tab")
    ELSE IF a.pane > Len(topology[a.window][a.tab])
      THEN ResolutionError("NotFound", "pane")
    ELSE Found(topology[a.window][a.tab][a.pane], "")

PositionsOf(topology) ==
  UNION { UNION { { <<k, i, j>> : j \in 1..Len(topology[k][i]) }
                  : i \in 1..Len(topology[k]) }
          : k \in 1..Len(topology) }

\* The positions of the panes flagged "is current".
CurrentPanes(topology) ==
  { at \in PositionsOf(topology) : topology[at[1]][at[2]][at[3]].current }

\* ResolveSide preferring the pane before the current one.
ResolveSidePreviousFirst(topology) ==
  IF Cardinality(CurrentPanes(topology)) # 1
    THEN ResolutionError("NoCurrentSession", "")
    ELSE LET at == CHOOSE c \in CurrentPanes(topology) : TRUE
             tab == topology[at[1]][at[2]]
         IN IF at[3] - 1 >= 1 THEN Found(tab[at[3] - 1], "previous")
            ELSE IF at[3] + 1 <= Len(tab) THEN Found(tab[at[3] + 1], "next")
            ELSE ResolutionError("NoSidePane", "")

\* resolveSide(topology): the pane after the current one in its tab, else the
\* pane before it, else NoSidePane.
ResolveSide(topology) ==
  IF Cardinality(CurrentPanes(topology)) # 1
    THEN ResolutionError("NoCurrentSession", "")
    ELSE LET at == CHOOSE c \in CurrentPanes(topology) : TRUE
             tab == topology[at[1]][at[2]]
         IN IF at[3] + 1 <= Len(tab) THEN Found(tab[at[3] + 1], "next")
            ELSE IF at[3] - 1 >= 1 THEN Found(tab[at[3] - 1], "previous")
            ELSE ResolutionError("NoSidePane", "")

\* The snapshots of the model: up to MaxWindows windows of 1..MaxTabs tabs of
\* 1..MaxPanes panes, MaxSnapshotPanes panes at most, at most one pane current.
SeqsUpTo(S, n) == UNION { [1..m -> S] : m \in 1..n }
TabShapes == 1..MaxPanes
WindowShapes == SeqsUpTo(TabShapes, MaxTabs)
RECURSIVE SumOf(_)
SumOf(counts) ==
  IF counts = <<>> THEN 0 ELSE Head(counts) + SumOf(Tail(counts))
RECURSIVE PaneCount(_)
PaneCount(shape) ==
  IF shape = <<>> THEN 0 ELSE SumOf(Head(shape)) + PaneCount(Tail(shape))
SnapshotShapes ==
  { shape \in {<<>>} \cup SeqsUpTo(WindowShapes, MaxWindows) :
      PaneCount(shape) <= MaxSnapshotPanes }
SessionId(k, i, j) == ((k - 1) * MaxTabs + (i - 1)) * MaxPanes + j
Snapshot(shape, at) ==
  [k \in 1..Len(shape) |->
    [i \in 1..Len(shape[k]) |->
      [j \in 1..shape[k][i] |->
        [id |-> SessionId(k, i, j), current |-> at = <<k, i, j>>]]]]
NoPosition == <<0, 0, 0>>
ShapePositions(shape) ==
  UNION { UNION { { <<k, i, j>> : j \in 1..shape[k][i] }
                  : i \in 1..Len(shape[k]) }
          : k \in 1..Len(shape) }
Snapshots ==
  UNION { { Snapshot(shape, at) : at \in ShapePositions(shape) \cup {NoPosition} }
          : shape \in SnapshotShapes }

\* The numbers an address of the model may name: 0 is not positive, and
\* MaxPanes + 1 is out of range at every level.
Positions == 0..(MaxPanes + 1)

NoQuery == [kind |-> "none", window |-> 0, tab |-> 0, pane |-> 0, address |-> <<>>]

----------------------------------------------------------------------------
(* State *)

VARIABLES
  pc,        \* per invocation: "idle" (not yet received), "awaiting", "done"
  request,   \* per invocation: request.params (name, arguments)
  spawned,   \* per invocation: the argument vectors runPythonClient was called with
  child,     \* per invocation: the child process and the listener's stdout/stderr
  promise,   \* per invocation: the promise runPythonClient returned
  outcome,   \* per invocation: what the handler returned or threw
  topology,  \* the snapshot the resolver is given
  query,     \* what the resolver was last asked
  resolution \* what the resolver answered

dispatcherVars == <<pc, request, spawned, child, promise, outcome>>
resolverVars == <<topology, query, resolution>>
vars == <<pc, request, spawned, child, promise, outcome, topology, query, resolution>>

NoRequest == [name |-> "", arguments |-> NoArguments]
\* exitCode is -1 until 'close' reports one.
NoChild ==
  [state |-> "none", stdout |-> <<>>, stderr |-> <<>>, errored |-> FALSE, exitCode |-> -1]
NewChild ==
  [state |-> "running", stdout |-> <<>>, stderr |-> <<>>, errored |-> FALSE, exitCode |-> -1]

DispatcherInit ==
  /\ pc = [i \in Calls |-> "idle"]
  /\ request = [i \in Calls |-> NoRequest]
  /\ spawned = [i \in Calls |-> <<>>]
  /\ child = [i \in Calls |-> NoChild]
  /\ promise = [i \in Calls |-> Pending]
  /\ outcome = [i \in Calls |-> NoOutcome]

\* The dispatcher holds no snapshot: the resolver lives in the collaborator.
Init ==
  /\ DispatcherInit
  /\ topology = <<>>
  /\ query = NoQuery
  /\ resolution = NoResolution

RECURSIVE ChunksUpTo(_)
ChunksUpTo(n) ==
  IF n = 0 THEN 0
  ELSE Len(child[n].stdout) + Len(child[n].stderr) + ChunksUpTo(n - 1)

ChunksEmitted == ChunksUpTo(MaxCalls)

----------------------------------------------------------------------------
(* Actions *)

\* A tools/call request arrives: the handler runs up to its await (or to its
\* throw). Nothing orders it after the invocations already awaiting.
\* (Invocations are numbered in their order of arrival.)
CallTool(i, name, args) ==
  /\ pc[i] = "idle"
  /\ \A j \in Calls : j < i => pc[j] # "idle"
  /\ request' = [request EXCEPT ![i] = [name |-> name, arguments |-> args]]
  /\ UNCHANGED resolverVars
  /\ LET before == BeforeAwait(name, args) IN
       IF before.exception.type = "none"
         THEN /\ pc' = [pc EXCEPT ![i] = "awaiting"]
              /\ spawned' = [spawned EXCEPT ![i] = Append(@, before.pythonArgs)]
              /\ child' = [child EXCEPT ![i] = NewChild]
              /\ UNCHANGED <<promise, outcome>>
         ELSE /\ pc' = [pc EXCEPT ![i] = "done"]
              /\ outcome' = [outcome EXCEPT ![i] = Catch(before.exception)]
              /\ UNCHANGED <<spawned, child, promise>>

\* The promise of invocation i settles and the handler resumes from its await.
Settle(i, settled) ==
  IF Retries(settled)
    THEN /\ spawned' = [spawned EXCEPT ![i] = Append(@, @[Len(@)])]
         /\ UNCHANGED <<pc, promise, outcome>>
    ELSE /\ promise' = [promise EXCEPT ![i] = settled]
         /\ pc' = [pc EXCEPT ![i] = "done"]
         /\ outcome' = [outcome EXCEPT ![i] = AfterAwait(request[i].name, settled)]
         /\ UNCHANGED spawned

StdoutData(i, chunk) ==
  /\ child[i].state = "running"
  /\ ~child[i].errored
  /\ ChunksEmitted < MaxChunks
  /\ child' = [child EXCEPT ![i].stdout = Append(@, chunk)]
  /\ UNCHANGED <<pc, request, spawned, promise, outcome>>
  /\ UNCHANGED resolverVars

StderrData(i, chunk) ==
  /\ child[i].state = "running"
  /\ ~child[i].errored
  /\ ChunksEmitted < MaxChunks
  /\ child' = [child EXCEPT ![i].stderr = Append(@, chunk)]
  /\ UNCHANGED <<pc, request, spawned, promise, outcome>>
  /\ UNCHANGED resolverVars

\* The child's stdio streams close.
Close(i, code) ==
  /\ child[i].state = "running"
  /\ UNCHANGED <<request, topology, query, resolution>>
  /\ IF promise[i].state = "pending"
       THEN LET settled == OnClose(child[i].stdout, child[i].stderr, code) IN
              /\ Settle(i, settled)
              /\ child' = [child EXCEPT ![i] =
                             IF Retries(settled) THEN NewChild
                             ELSE [@ EXCEPT !.state = "closed", !.exitCode = code]]
       ELSE /\ child' = [child EXCEPT ![i].state = "closed", ![i].exitCode = code]
            /\ UNCHANGED <<pc, spawned, promise, outcome>>

\* The child emits 'error': the process could not be spawned, so it has written
\* nothing and will write nothing (a 'close' may still follow).
ChildError(i) ==
  /\ child[i].state = "running"
  /\ ~child[i].errored
  /\ child[i].stdout = <<>> /\ child[i].stderr = <<>>
  /\ promise[i].state = "pending"
  /\ UNCHANGED <<request, topology, query, resolution>>
  /\ LET settled == OnError(SpawnError) IN
       /\ Settle(i, settled)
       /\ child' = [child EXCEPT ![i] =
                      IF Retries(settled) THEN NewChild
                      ELSE [@ EXCEPT !.errored = TRUE]]

\* The collaborator blocks for good before it writes anything (it waits on a
\* terminal that never answers): from here on the child emits nothing.
Hang(i) ==
  /\ child[i].state = "running"
  /\ ~child[i].errored
  /\ child[i].stdout = <<>> /\ child[i].stderr = <<>>
  /\ child' = [child EXCEPT ![i].state = "hung"]
  /\ UNCHANGED <<pc, request, spawned, promise, outcome>>
  /\ UNCHANGED resolverVars

Next ==
  \/ \E i \in Calls, name \in RequestNames :
       \E args \in ArgumentsOf(name) : CallTool(i, name, args)
  \/ \E i \in Calls, chunk \in StdoutChunks : StdoutData(i, chunk)
  \/ \E i \in Calls, chunk \in StderrChunks : StderrData(i, chunk)
  \/ \E i \in Calls, code \in ExitCodes : Close(i, code)
  \/ \E i \in Calls : ChildError(i)
  \/ \E i \in Calls : Hang(i)

Spec == Init /\ [][Next]_vars

----------------------------------------------------------------------------
(* The status verb of the collaborator *)

And3(m, a, s) ==
  IF m = "true" /\ a = "true" /\ s = "true" THEN "true" ELSE "false"

\* What the collaborator prints for `status`: the three booleans it probes
\* (control library present, API enabled in preferences, run inside a managed
\* session) and ready, their conjunction.
StatusOutput(m, a, s) ==
  <<Brace>> \o ModuleMember(m) \o ApiMember(a) \o SessionMember(s)
            \o ReadyMember(And3(m, a, s))

\* A status invocation arrives.
StatusCall(i) ==
  \E args \in ArgumentsOf("iterm2_status") : CallTool(i, "iterm2_status", args)

\* The collaborator of a status invocation prints its answer and exits with
\* code 0: the close listener parses it and the handler renders it.
StatusReply(i, m, a, s) ==
  /\ request[i].name = "iterm2_status"
  /\ child[i].state = "running"
  /\ promise[i].state = "pending"
  /\ UNCHANGED <<request, topology, query, resolution>>
  /\ LET settled == OnClose(StatusOutput(m, a, s), <<>>, 0) IN
       /\ Settle(i, settled)
       /\ child' = [child EXCEPT ![i] =
                      IF Retries(settled) THEN NewChild
                      ELSE [@ EXCEPT !.stdout = StatusOutput(m, a, s),
                                     !.state = "closed", !.exitCode = 0]]

StatusNext ==
  \/ \E i \in Calls : StatusCall(i)
  \/ \E i \in Calls, m \in JSBooleans, a \in JSBooleans, s \in JSBooleans :
       StatusReply(i, m, a, s)

StatusSpec == Init /\ [][StatusNext]_vars

----------------------------------------------------------------------------
(* The resolver on its own *)

ResolveInit ==
  /\ DispatcherInit
  /\ topology \in Snapshots
  /\ query = NoQuery
  /\ resolution = NoResolution

\* The resolver is asked for the pane of a shorthand address (one question
\* per snapshot: a command takes its own snapshot).
ResolveShorthand(window, tab, pane) ==
  /\ query = NoQuery
  /\ query' = [kind |-> "shorthand", window |-> window, tab |-> tab, pane |-> pane,
               address |-> Shorthand(window, tab, pane)]
  /\ resolution' = Resolve(topology, Shorthand(window, tab, pane))
  /\ UNCHANGED <<topology, dispatcherVars>>

\* The resolver is asked for the side pane.
ResolveSidePane ==
  /\ query = NoQuery
  /\ query' = [NoQuery EXCEPT !.kind = "side"]
  /\ resolution' = ResolveSide(topology)
  /\ UNCHANGED <<topology, dispatcherVars>>

ResolveNext ==
  \/ \E window \in Positions, tab \in Positions, pane \in Positions :
       ResolveShorthand(window, tab, pane)
  \/ ResolveSidePane

ResolveSpec == ResolveInit /\ [][ResolveNext]_vars

\* A child whose exit the operating system will report: it is running and not blocked.
FairSpec ==
  Spec /\ \A i \in Calls : WF_vars(\E code \in ExitCodes : Close(i, code))

----------------------------------------------------------------------------
(* Vocabulary of the properties *)

AddressTools ==
  {"iterm2_read_pane", "iterm2_send_text", "iterm2_send_control_character",
   "iterm2_split_pane"}

Received(i) == pc[i] # "idle"
Done(i) == pc[i] = "done"
CollaboratorInvoked(i) == spawned[i] # <<>>

\* part occurs in text as a run of adjacent fragments.
Contains(text, part) ==
  \E k \in 0..(Len(text) - Len(part)) : SubSeq(text, k + 1, k + Len(part)) = part

InvalidParamsFault(i) ==
  outcome[i].kind = "fault" /\ outcome[i].code = "InvalidParams"

\* The request lacks session_id (missing or empty), or is a send_text that lacks text.
LacksAddressOrText(i) ==
  /\ request[i].name \in AddressTools
  /\ \/ Falsy(request[i].arguments.session_id)
     \/ request[i].name = "iterm2_send_text" /\ Falsy(request[i].arguments.text)

----------------------------------------------------------------------------
(* C1 *)

\* C1: every read_pane, send_text, send_control_character or split_pane
\* invocation whose session_id is missing or empty, and every send_text
\* invocation whose text is missing or empty, fails with an invalid-params
\* fault, and the collaborator is never invoked for it.
C1_MissingArgumentIsInvalidParams ==
  \A i \in Calls :
    Received(i) /\ LacksAddressOrText(i) =>
      Done(i) /\ InvalidParamsFault(i) /\ ~CollaboratorInvoked(i)

----------------------------------------------------------------------------
(* C2 *)

\* C2: send_control_character rejects every control value outside {c, d, z, l}
\* with a validation failure, and the collaborator is invoked with the verb
\* send-control only when control is one of c, d, z, l. (Stated for requests
\* that carry an arguments object, so that only the control value decides.)
C2_ControlOutsideEnumRejected ==
  \A i \in Calls :
    /\ Received(i)
    /\ request[i].name = "iterm2_send_control_character"
    /\ request[i].arguments.present
    =>
      /\ request[i].arguments.control \notin ControlEnum =>
           Done(i) /\ InvalidParamsFault(i) /\ ~CollaboratorInvoked(i)
      /\ \A k \in 1..Len(spawned[i]) :
           spawned[i][k][1] = "send-control" => spawned[i][k][3] \in ControlEnum

----------------------------------------------------------------------------
(* C3 *)

\* C3: for every tool, whenever the collaborator returns a failure object
\* {error: true, message}, the dispatcher returns a response (it throws no
\* fault) that carries isError: true and a text containing that message.
C3_FailureObjectIsFlaggedResponse ==
  \A i \in Calls :
    /\ Done(i)
    /\ promise[i].state = "resolved"
    /\ ~promise[i].value.isNull
    /\ promise[i].value.error = "true"
    => /\ outcome[i].kind = "response"
       /\ outcome[i].isError
       /\ Contains(outcome[i].text, <<promise[i].value.message>>)

----------------------------------------------------------------------------
(* C4 *)

\* The collaborator call of invocation i failed in transport: the process could
\* not be spawned, or it closed with stdout that is empty or is not JSON.
TransportFailed(i) ==
  \/ child[i].errored
  \/ /\ child[i].state = "closed"
     /\ child[i].stdout = <<>> \/ ~JSONParse(child[i].stdout).ok

\* The raw diagnostic of that failure.
Diagnostic(i) ==
  IF child[i].errored THEN SpawnError
  ELSE IF child[i].stdout # <<>> THEN child[i].stdout
  ELSE IF child[i].stderr # <<>> THEN child[i].stderr
  ELSE IF child[i].exitCode # 0 THEN <<CodeText(child[i].exitCode)>>
  ELSE <<"No output from Python process">>

\* C4: every transport failure of a collaborator call (spawn failure, stdout
\* that is not JSON, empty stdout with or without stderr or a non-zero exit
\* code) ends the invocation with a response carrying isError: true whose text
\* contains the raw diagnostic; none ends success-shaped or without an outcome.
C4_TransportFailureSurfaced ==
  \A i \in Calls :
    TransportFailed(i) =>
      /\ Done(i)
      /\ outcome[i].kind = "response"
      /\ outcome[i].isError
      /\ Contains(outcome[i].text, Diagnostic(i))

\* Witness of C4: a child closed with non-empty stdout that is not JSON, and the
\* invocation ended with a flagged response.
C4_Witness ==
  \E i \in Calls :
    /\ child[i].state = "closed" /\ ~child[i].errored
    /\ child[i].stdout # <<>> /\ ~JSONParse(child[i].stdout).ok
    /\ Done(i) /\ outcome[i].isError

----------------------------------------------------------------------------
(* C5 *)

\* C5: every invocation that calls the collaborator eventually completes with
\* an outcome, also when the collaborator process never closes and never
\* raises an error event.
C5_AwaitingEventuallyCompletes ==
  \A i \in Calls : (pc[i] = "awaiting") ~> (pc[i] = "done")

----------------------------------------------------------------------------
(* C6 *)

\* C6: whatever the outcome of an invocation, the collaborator is invoked at
\* most once for it.
C6_AtMostOneCollaboratorCall ==
  \A i \in Calls : Len(spawned[i]) <= 1

\* Witness of C6: a send_text invocation that ended in a transport failure
\* after exactly one collaborator call.
C6_Witness ==
  \E i \in Calls :
    /\ request[i].name = "iterm2_send_text"
    /\ Done(i) /\ promise[i].state = "rejected"
    /\ Len(spawned[i]) = 1

----------------------------------------------------------------------------
(* C7 *)

InFlight == {i \in Calls : pc[i] = "awaiting"}

\* C7: at most one collaborator call is in flight in every reachable state,
\* also when a second request arrives while the first awaits its collaborator.
C7_OneCallInFlight ==
  Cardinality(InFlight) <= 1

----------------------------------------------------------------------------
(* C8 *)

\* C8: a call whose name is not a declared tool fails with a method-not-found
\* fault thrown to the transport layer (not an isError response), and the
\* collaborator is never invoked.
C8_UnknownToolIsMethodNotFound ==
  \A i \in Calls :
    Received(i) /\ request[i].name \notin ToolNames =>
      /\ Done(i)
      /\ outcome[i].kind = "fault"
      /\ outcome[i].code = "MethodNotFound"
      /\ ~CollaboratorInvoked(i)

\* Witness of C8: an invocation of an undeclared tool has been handled.
C8_Witness ==
  \E i \in Calls :
    Done(i) /\ request[i].name \notin ToolNames /\ outcome[i].kind = "fault"

----------------------------------------------------------------------------
(* C9 *)

\* The request violates the protocol shape: an unknown tool, or a required
\* argument that is missing or empty.
ShapeViolation(i) ==
  \/ request[i].name \notin ToolNames
  \/ LacksAddressOrText(i)
  \/ /\ request[i].name = "iterm2_send_control_character"
     /\ Falsy(request[i].arguments.control)

\* C9: the handler throws a fault only for protocol-shape violations; every
\* other invocation, also one whose collaborator call was rejected or whose
\* result could not be handled, ends with one response {content: [text],
\* isError?} and no fault.
C9_FaultsOnlyForShapeViolations ==
  \A i \in Calls :
    /\ Done(i) <=> outcome[i] # NoOutcome
    /\ Done(i) =>
         /\ outcome[i].kind \in {"fault", "response"}
         /\ outcome[i].kind = "fault" => ShapeViolation(i) /\ ~CollaboratorInvoked(i)
         /\ outcome[i].kind = "response" => outcome[i].text # <<>>
         /\ ~ShapeViolation(i) => outcome[i].kind = "response"

\* Witness of C9: the collaborator printed null, reading result.error threw a
\* TypeError after the await, and the invocation still ended with a response.
C9_Witness ==
  \E i \in Calls :
    /\ Done(i)
    /\ promise[i].state = "resolved" /\ promise[i].value.isNull
    /\ outcome[i].kind = "response" /\ outcome[i].isError

----------------------------------------------------------------------------
(* C10 *)

SentText(i) ==
  request[i].name = "iterm2_send_text" /\ CollaboratorInvoked(i)

HasNoNewlineFlag(pythonArgs) ==
  \E k \in 1..Len(pythonArgs) : pythonArgs[k] = "--no-newline"

\* C10: the collaborator request of a send_text with newline omitted equals the
\* one with newline: true for the same session_id and text, and the
\* --no-newline flag is sent if and only if newline is explicitly false.
C10_NewlineDefaultsToTrue ==
  \A i \in Calls :
    SentText(i) =>
      /\ HasNoNewlineFlag(spawned[i][1]) <=> request[i].arguments.newline = "false"
      /\ \A j \in Calls :
           /\ SentText(j)
           /\ request[j].arguments.session_id = request[i].arguments.session_id
           /\ request[j].arguments.text = request[i].arguments.text
           /\ request[i].arguments.newline = Undefined
           /\ request[j].arguments.newline = "true"
           => spawned[i][1] = spawned[j][1]

\* Witness of C10: two send_text invocations for the same pane and text, one
\* with newline omitted and one with newline: true, both sent to the collaborator.
C10_Witness ==
  \E i, j \in Calls :
    /\ SentText(i) /\ SentText(j)
    /\ request[i].arguments.newline = Undefined
    /\ request[j].arguments.newline = "true"
    /\ spawned[i][1] = spawned[j][1]

----------------------------------------------------------------------------
(* C11 *)

SplitRequested(i) ==
  request[i].name = "iterm2_split_pane" /\ CollaboratorInvoked(i)

HasVerticalFlag(pythonArgs) ==
  \E k \in 1..Len(pythonArgs) : pythonArgs[k] = "--vertical"

\* C11: split_pane asks the collaborator for a vertical split if and only if
\* vertical is explicitly true, and a call with vertical omitted issues the same
\* collaborator request as a call with vertical: false for the same session_id.
C11_VerticalDefaultsToFalse ==
  \A i \in Calls :
    SplitRequested(i) =>
      /\ HasVerticalFlag(spawned[i][1]) <=> request[i].arguments.vertical = "true"
      /\ \A j \in Calls :
           /\ SplitRequested(j)
           /\ request[j].arguments.session_id = request[i].arguments.session_id
           /\ request[i].arguments.vertical = Undefined
           /\ request[j].arguments.vertical = "false"
           => spawned[i][1] = spawned[j][1]

\* Witness of C11: two split_pane invocations for the same pane, one with
\* vertical omitted and one with vertical: false, both sent without the flag.
C11_Witness ==
  \E i, j \in Calls :
    /\ SplitRequested(i) /\ SplitRequested(j)
    /\ request[i].arguments.vertical = Undefined
    /\ request[j].arguments.vertical = "false"
    /\ spawned[i][1] = spawned[j][1]
    /\ ~HasVerticalFlag(spawned[i][1])

----------------------------------------------------------------------------
(* C12 *)

StatusAnswered(i) ==
  /\ Done(i)
  /\ request[i].name = "iterm2_status"
  /\ promise[i].state = "resolved"

ReportsReady(i, answer) ==
  Contains(outcome[i].text, <<"- Ready to use: ", answer>>)

----------------------------------------------------------------------------
(* C13 *)

\* The window an address names: 1 when it gives none.
WindowAsked == IF query.window = 0 THEN 1 ELSE query.window

WellFormedAsked ==
  query.kind = "shorthand" /\ query.tab >= 1 /\ query.pane >= 1

InRange ==
  /\ WindowAsked <= Len(topology)
  /\ query.tab <= Len(topology[WindowAsked])
  /\ query.pane <= Len(topology[WindowAsked][query.tab])

\* C13: a well-formed shorthand address t<i>p<j> or w<k>t<i>p<j> (k = 1 when
\* omitted) resolves, to the pane at position j of tab i of window k, if and
\* only if k <= number of windows, i <= number of tabs of window k and j <=
\* number of panes of tab i; otherwise it fails with NotFound; and t<i>p<j>
\* resolves exactly as w1t<i>p<j>.
C13_ShorthandResolvesIffInRange ==
  WellFormedAsked =>
    /\ resolution.state = "found" <=> InRange
    /\ InRange => resolution.pane = topology[WindowAsked][query.tab][query.pane]
    /\ ~InRange => resolution.state = "failed" /\ resolution.error = "NotFound"
    /\ query.window = 0 =>
         resolution = Resolve(topology, <<"w", "1">> \o query.address)

\* Witness of C13: an address without window found in the second tab of the
\* first of two windows.
C13_Witness ==
  /\ WellFormedAsked
  /\ query.window = 0 /\ query.tab = 2
  /\ Len(topology) = 2
  /\ resolution.state = "found"
  /\ resolution.pane = topology[1][2][query.pane]

----------------------------------------------------------------------------
(* C14 *)

SideAsked == query.kind = "side" /\ Cardinality(CurrentPanes(topology)) = 1

CurrentAt == CHOOSE at \in CurrentPanes(topology) : TRUE
CurrentTab == topology[CurrentAt[1]][CurrentAt[2]]

\* C14: in a snapshot with exactly one current pane, the side pane is the pane
\* right after the current one in its tab, with position "next", when there is
\* one; otherwise the pane right before it, with position "previous"; and when
\* the current pane's tab has exactly one pane, resolution fails with NoSidePane.
C14_SidePaneIsNextElsePrevious ==
  SideAsked =>
    /\ CurrentAt[3] < Len(CurrentTab) =>
         resolution = Found(CurrentTab[CurrentAt[3] + 1], "next")
    /\ CurrentAt[3] = Len(CurrentTab) /\ CurrentAt[3] > 1 =>
         resolution = Found(CurrentTab[CurrentAt[3] - 1], "previous")
    /\ Len(CurrentTab) = 1 => resolution = ResolutionError("NoSidePane", "")

\* Witness of C14: the current pane is the last of three, and the side pane is
\* the second, "previous".
C14_Witness ==
  /\ SideAsked
  /\ Len(CurrentTab) = 3 /\ CurrentAt[3] = 3
  /\ resolution = Found(CurrentTab[2], "previous")

----------------------------------------------------------------------------
(* C15 *)

\* The child of invocation i closed with a non-empty stdout that parses.
ClosedWithJSON(i) ==
  /\ child[i].state = "closed"
  /\ child[i].stdout # <<>>
  /\ JSONParse(child[i].stdout).ok

\* Parseable stdout wins over stderr text and exit code, and a spawn error
\* stays the outcome whatever follows it.
FirstEventDecides ==
  \A i \in Calls :
    /\ ClosedWithJSON(i) => promise[i] = Resolved(JSONParse(child[i].stdout).value)
    /\ child[i].errored => promise[i] = OnError(SpawnError)

\* Once settled, a promise keeps its state and value, and the handler's
\* outcome stays what it was.
SettledStays ==
  \A i \in Calls :
    /\ promise[i].state # "pending" => promise'[i] = promise[i]
    /\ Done(i) => outcome'[i] = outcome[i]

\* C15: under every interleaving of the child's stdout data, stderr data, close
\* and error events a collaborator call is settled at most once (the first of
\* close or error decides, a later event never changes it), and a close with
\* non-empty stdout that parses as JSON makes the call succeed with that value
\* whatever stderr holds and whatever the exit code is.
C15_SettledOnceStdoutWins == []FirstEventDecides /\ [][SettledStays]_vars

\* Witness of C15: a child that wrote JSON to stdout and text to stderr and
\* exited with code 1, its call resolved with the parsed value.
C15_Witness ==
  \E i \in Calls :
    /\ ClosedWithJSON(i)
    /\ child[i].stderr # <<>>
    /\ child[i].exitCode = 1
    /\ promise[i] = Resolved(JSONParse(child[i].stdout).value)

====
